---- MODULE Spec2Model ----
(***************************************************************************)
(* Model of the gymmis-ai food estimator.                                  *)
(*                                                                         *)
(*   app/ai_model.py           _normalize, FoodEstimator.__init__,         *)
(*                             FoodEstimator.estimate                      *)
(*   app/estimator_service.py  _get_estimator, _maybe_preload, /estimate   *)
(*                                                                         *)
(* Three specifications share the definitions below:                       *)
(*   SpecNormalize  applies _normalize to labels drawn from a bounded set; *)
(*   Spec           builds one FoodEstimator and runs estimate, one model  *)
(*                  invocation per step;                                   *)
(*   SpecService    the FastAPI process: startup preload and /estimate     *)
(*                  requests scheduled by the asyncio event loop.          *)
(*                                                                         *)
(* Numbers.  A raw model confidence is held in units of 1e-4, a weight in  *)
(* units of 1e-1, so a weighted score conf * w is exact in units of 1e-5;  *)
(* round(score, 4) brings it back to units of 1e-4.  The arithmetic is     *)
(* exact decimal arithmetic: binary floating-point error is not modelled.  *)
(***************************************************************************)
EXTENDS Integers, Sequences, FiniteSets, TLC

VARIABLES
  lbl,            \* _normalize: the raw label passed in
  ret,            \* _normalize: the value returned, NotCalled before the call
  cfg,            \* the environment configuration the process was started with
  est,            \* the FoodEstimator instance under test (None before __init__)
  image,          \* the image argument of the current estimate call
  pc,             \* position of the estimate call
  k,              \* index into zip(self.cls_pipes, pipe_weights)
  resp,           \* what each sub-model returned in the current estimate call
  scores,         \* the local dict `scores`, in insertion order
  result,         \* what estimate returned (or that it raised)
  AI_PRELOAD,     \* estimator_service: the AI_PRELOAD switch
  started,        \* estimator_service: the startup event has run
  estimator,      \* estimator_service: the module global _estimator
  constructions,  \* estimator_service: calls of FoodEstimator() so far
  req             \* estimator_service: each /estimate request's position

vars ==
  <<lbl, ret, cfg, est, image, pc, k, resp, scores, result,
    AI_PRELOAD, started, estimator, constructions, req>>

normVars == <<lbl, ret>>

estVars == <<cfg, est, image, pc, k, resp, scores, result>>

svcVars == <<AI_PRELOAD, started, estimator, constructions, req>>

(***************************************************************************)
(* Bounds of the model.                                                    *)
(***************************************************************************)
\* labels given to _normalize are made of at most MaxWords words
MaxWords == 3

\* a sub-model returns at most MaxPreds predictions per call
MaxPreds == 2

\* number of /estimate requests the service receives
MaxRequests == 2

(***************************************************************************)
(* Python strings.  TLA+ strings with Len, SubSeq and \o.                  *)
(***************************************************************************)
UpperCase == "ABCDEFGHIJKLMNOPQRSTUVWXYZ"

LowerCase == "abcdefghijklmnopqrstuvwxyz"

Whitespace == {" ", "\t"}

CharAt(s, i) == SubSeq(s, i, i)

IndexIn(alphabet, c) ==
  IF \E i \in 1..Len(alphabet) : CharAt(alphabet, i) = c
  THEN CHOOSE i \in 1..Len(alphabet) : CharAt(alphabet, i) = c
  ELSE 0

IsCased(c) == IndexIn(UpperCase, c) > 0 \/ IndexIn(LowerCase, c) > 0

LowerChar(c) ==
  IF IndexIn(UpperCase, c) > 0 THEN CharAt(LowerCase, IndexIn(UpperCase, c)) ELSE c

UpperChar(c) ==
  IF IndexIn(LowerCase, c) > 0 THEN CharAt(UpperCase, IndexIn(LowerCase, c)) ELSE c

RECURSIVE lower(_)
\* str.lower()
lower(s) ==
  IF Len(s) = 0 THEN "" ELSE LowerChar(CharAt(s, 1)) \o lower(SubSeq(s, 2, Len(s)))

RECURSIVE upper(_)
\* str.upper()
upper(s) ==
  IF Len(s) = 0 THEN "" ELSE UpperChar(CharAt(s, 1)) \o upper(SubSeq(s, 2, Len(s)))

RECURSIVE strip(_)
\* str.strip(): leading and trailing whitespace removed
strip(s) ==
  IF Len(s) = 0 THEN ""
  ELSE IF CharAt(s, 1) \in Whitespace THEN strip(SubSeq(s, 2, Len(s)))
  ELSE IF CharAt(s, Len(s)) \in Whitespace THEN strip(SubSeq(s, 1, Len(s) - 1))
  ELSE s

RECURSIVE TitleFrom(_, _)
\* str.title(), the rest of the string: a cased character is upper-cased when the
\* character before it is not cased, and lower-cased otherwise
TitleFrom(s, prevCased) ==
  IF Len(s) = 0 THEN ""
  ELSE LET c == CharAt(s, 1)
       IN  (IF prevCased THEN LowerChar(c) ELSE UpperChar(c))
             \o TitleFrom(SubSeq(s, 2, Len(s)), IsCased(c))

\* str.title()
title(s) == TitleFrom(s, FALSE)

\* sub in s
Contains(sub, s) ==
  \E i \in 1..(Len(s) - Len(sub) + 1) : SubSeq(s, i, i + Len(sub) - 1) = sub

(***************************************************************************)
(* Static tables of ai_model.py.                                           *)
(***************************************************************************)
CANDIDATES ==
  <<
  "Oatmeal", "Porridge", "Yogurt Parfait", "Acai Bowl", "Smoothie Bowl",
  "Avocado Toast", "Grilled Cheese", "Chicken Wrap", "Beef Wrap", "Veggie Wrap",
  "Chicken & Rice", "Beef & Rice", "Rice (cooked)", "Chicken Breast", "Beef Steak",
  "Omelette", "Egg", "Scrambled Eggs", "Caesar Salad", "Greek Salad", "Garden Salad",
  "Pasta", "Spaghetti", "Mac and Cheese", "Burger", "Sandwich", "Turkey Sandwich",
  "Ham Sandwich", "Club Sandwich", "Taco", "Burrito", "Quesadilla", "Fries", "Soup",
  "Sushi", "Steak", "Pizza", "Pepperoni Pizza", "Cheese Pizza",
  "Bagel with Cream Cheese", "Peanut Butter Toast", "Granola with Milk",
  "Cereal with Milk", "Chicken Bowl", "Beef Bowl", "Veggie Bowl", "Biryani", "Dosa",
  "Idli", "Poori", "Paratha", "Roti", "Dal", "Paneer", "Samosa", "Masala Dosa",
  "Chicken Curry", "Mutton Curry", "Fish Curry", "Veg Curry", "Chole", "Rajma", "Upma",
  "Vada", "Pav Bhaji", "Poha", "Kheer", "Gulab Jamun", "Curd (yogurt)"
  >>

DEFAULT_GRAMS ==
  ("Oatmeal" :> 100) @@ ("Porridge" :> 250) @@ ("Yogurt Parfait" :> 200) @@
  ("Acai Bowl" :> 300) @@ ("Smoothie Bowl" :> 300) @@ ("Avocado Toast" :> 120) @@
  ("Grilled Cheese" :> 170) @@ ("Chicken Wrap" :> 250) @@ ("Beef Wrap" :> 260) @@
  ("Veggie Wrap" :> 240) @@ ("Chicken & Rice" :> 100) @@ ("Beef & Rice" :> 100) @@
  ("Rice (cooked)" :> 180) @@ ("Chicken Breast" :> 150) @@ ("Beef Steak" :> 180) @@
  ("Omelette" :> 140) @@ ("Egg" :> 50) @@ ("Scrambled Eggs" :> 150) @@
  ("Caesar Salad" :> 220) @@ ("Greek Salad" :> 220) @@ ("Garden Salad" :> 220) @@
  ("Pasta" :> 220) @@ ("Spaghetti" :> 220) @@ ("Mac and Cheese" :> 250) @@
  ("Burger" :> 180) @@ ("Sandwich" :> 160) @@ ("Turkey Sandwich" :> 170) @@
  ("Ham Sandwich" :> 170) @@ ("Club Sandwich" :> 220) @@ ("Taco" :> 120) @@
  ("Burrito" :> 250) @@ ("Quesadilla" :> 220) @@ ("Fries" :> 150) @@ ("Soup" :> 300) @@
  ("Sushi" :> 200) @@ ("Steak" :> 200) @@ ("Pizza" :> 120) @@
  ("Pepperoni Pizza" :> 130) @@ ("Cheese Pizza" :> 120) @@
  ("Bagel with Cream Cheese" :> 120) @@ ("Peanut Butter Toast" :> 100) @@
  ("Granola with Milk" :> 200) @@ ("Cereal with Milk" :> 200) @@
  ("Chicken Bowl" :> 100) @@ ("Beef Bowl" :> 100) @@ ("Veggie Bowl" :> 100) @@
  ("Biryani" :> 100) @@ ("Dosa" :> 120) @@ ("Idli" :> 50) @@ ("Poori" :> 60) @@
  ("Paratha" :> 80) @@ ("Roti" :> 50) @@ ("Dal" :> 180) @@ ("Paneer" :> 120) @@
  ("Samosa" :> 80) @@ ("Masala Dosa" :> 140) @@ ("Chicken Curry" :> 220) @@
  ("Mutton Curry" :> 220) @@ ("Fish Curry" :> 220) @@ ("Veg Curry" :> 220) @@
  ("Chole" :> 220) @@ ("Rajma" :> 220) @@ ("Upma" :> 200) @@ ("Vada" :> 90) @@
  ("Pav Bhaji" :> 220) @@ ("Poha" :> 160) @@ ("Kheer" :> 150) @@
  ("Gulab Jamun" :> 70) @@ ("Curd (yogurt)" :> 100)

ALIASES ==
  ("oatmeal" :> "Oatmeal") @@ ("porridge" :> "Oatmeal") @@ ("oats" :> "Oatmeal") @@
  ("oat porridge" :> "Oatmeal") @@ ("banana oatmeal" :> "Oatmeal") @@
  ("blueberry oatmeal" :> "Oatmeal") @@ ("omelet" :> "Omelette") @@
  ("omelette" :> "Omelette") @@ ("scrambled egg" :> "Scrambled Eggs") @@
  ("scrambled eggs" :> "Scrambled Eggs") @@ ("fried egg" :> "Egg") @@
  ("boiled egg" :> "Egg") @@ ("egg" :> "Egg") @@ ("avocado toast" :> "Avocado Toast") @@
  ("smashed avocado toast" :> "Avocado Toast") @@
  ("grilled_cheese_sandwich" :> "Grilled Cheese") @@
  ("grilled cheese" :> "Grilled Cheese") @@
  ("peanut butter toast" :> "Peanut Butter Toast") @@
  ("bagel with cream cheese" :> "Bagel with Cream Cheese") @@
  ("turkey sandwich" :> "Turkey Sandwich") @@ ("ham sandwich" :> "Ham Sandwich") @@
  ("club sandwich" :> "Club Sandwich") @@ ("sandwich" :> "Sandwich") @@
  ("acai bowl" :> "Acai Bowl") @@ ("açaí bowl" :> "Acai Bowl") @@
  ("smoothie bowl" :> "Smoothie Bowl") @@ ("chicken bowl" :> "Chicken Bowl") @@
  ("beef bowl" :> "Beef Bowl") @@ ("veggie bowl" :> "Veggie Bowl") @@
  ("chicken wrap" :> "Chicken Wrap") @@ ("chicken caesar wrap" :> "Chicken Wrap") @@
  ("beef wrap" :> "Beef Wrap") @@ ("veggie wrap" :> "Veggie Wrap") @@
  ("turkey wrap" :> "Turkey Sandwich") @@ ("chicken rice" :> "Chicken & Rice") @@
  ("chicken and rice" :> "Chicken & Rice") @@
  ("rice and chicken" :> "Chicken & Rice") @@ ("beef rice" :> "Beef & Rice") @@
  ("beef and rice" :> "Beef & Rice") @@ ("rice and beef" :> "Beef & Rice") @@
  ("white rice" :> "Rice (cooked)") @@ ("steamed rice" :> "Rice (cooked)") @@
  ("fried rice" :> "Rice (cooked)") @@ ("chicken breast" :> "Chicken Breast") @@
  ("grilled chicken" :> "Chicken Breast") @@ ("butter chicken" :> "Chicken Curry") @@
  ("steak" :> "Steak") @@ ("beef steak" :> "Beef Steak") @@
  ("caesar salad" :> "Caesar Salad") @@ ("greek salad" :> "Greek Salad") @@
  ("garden salad" :> "Garden Salad") @@ ("house salad" :> "Garden Salad") @@
  ("spaghetti" :> "Spaghetti") @@ ("macaroni and cheese" :> "Mac and Cheese") @@
  ("mac & cheese" :> "Mac and Cheese") @@ ("pepperoni pizza" :> "Pepperoni Pizza") @@
  ("cheese pizza" :> "Cheese Pizza") @@ ("pizza" :> "Pizza") @@ ("taco" :> "Taco") @@
  ("burrito" :> "Burrito") @@ ("quesadilla" :> "Quesadilla") @@
  ("granola with milk" :> "Granola with Milk") @@
  ("cereal with milk" :> "Cereal with Milk") @@ ("cereal" :> "Cereal with Milk") @@
  ("curd" :> "Curd (yogurt)") @@ ("yoghurt" :> "Curd (yogurt)") @@ ("naan" :> "Roti") @@
  ("chapati" :> "Roti") @@ ("phulka" :> "Roti") @@
  ("chicken curry" :> "Chicken Curry") @@ ("veg curry" :> "Veg Curry")
CandidateSet == {CANDIDATES[i] : i \in 1..Len(CANDIDATES)}

(***************************************************************************)
(* _normalize.  The substring rules are an if-chain in the source; they    *)
(* are kept as if-chains here, cut in three at the rice rules.  A group    *)
(* gives "" when none of its rules matches (no rule returns "").           *)
(***************************************************************************)
\* lines 120-125: oats, toasts, grilled cheese, wraps
RulesBeforeRice(s) ==
  IF Contains("oat", s) \/ Contains("porridge", s) THEN "Oatmeal"
  ELSE IF Contains("avocado", s) /\ Contains("toast", s) THEN "Avocado Toast"
  ELSE IF Contains("grilled", s) /\ Contains("cheese", s) THEN "Grilled Cheese"
  ELSE IF Contains("wrap", s) /\ Contains("chicken", s) THEN "Chicken Wrap"
  ELSE IF Contains("wrap", s) /\ Contains("beef", s) THEN "Beef Wrap"
  ELSE IF Contains("wrap", s) /\ (Contains("veg", s) \/ Contains("veget", s))
    THEN "Veggie Wrap"
  ELSE ""

\* the rice rules with the single-ingredient rules tried before the combinations
RiceRulesSingleFirst(s) ==
  IF Contains("rice", s) THEN "Rice (cooked)"
  ELSE IF Contains("chicken", s) /\ ~Contains("curry", s) THEN "Chicken Breast"
  ELSE IF Contains("chicken", s) /\ Contains("rice", s) THEN "Chicken & Rice"
  ELSE IF Contains("beef", s) /\ Contains("rice", s) THEN "Beef & Rice"
  ELSE ""

\* lines 126-129: rice combinations, then rice, then chicken
RiceRules(s) ==
  IF Contains("chicken", s) /\ Contains("rice", s) THEN "Chicken & Rice"
  ELSE IF Contains("beef", s) /\ Contains("rice", s) THEN "Beef & Rice"
  ELSE IF Contains("rice", s) THEN "Rice (cooked)"
  ELSE IF Contains("chicken", s) /\ ~Contains("curry", s) THEN "Chicken Breast"
  ELSE ""

\* lines 130-143: parfait, bowls, salads, pasta, Tex-Mex, pizza
RulesAfterRice(s) ==
  IF Contains("yogurt", s) /\ Contains("parfait", s) THEN "Yogurt Parfait"
  ELSE IF Contains("bowl", s) /\ Contains("acai", s) THEN "Acai Bowl"
  ELSE IF Contains("bowl", s) /\ Contains("smoothie", s) THEN "Smoothie Bowl"
  ELSE IF Contains("caesar", s) /\ Contains("salad", s) THEN "Caesar Salad"
  ELSE IF Contains("greek", s) /\ Contains("salad", s) THEN "Greek Salad"
  ELSE IF Contains("salad", s) THEN "Garden Salad"
  ELSE IF Contains("spaghetti", s) THEN "Spaghetti"
  ELSE IF Contains("mac", s) /\ Contains("cheese", s) THEN "Mac and Cheese"
  ELSE IF Contains("quesadilla", s) THEN "Quesadilla"
  ELSE IF Contains("taco", s) THEN "Taco"
  ELSE IF Contains("burrito", s) THEN "Burrito"
  ELSE IF Contains("pizza", s) /\ Contains("pepperoni", s) THEN "Pepperoni Pizza"
  ELSE IF Contains("pizza", s) /\ Contains("cheese", s) THEN "Cheese Pizza"
  ELSE IF Contains("pizza", s) THEN "Pizza"
  ELSE ""

\* lines 145-146: t = s.title(); return t if t in CANDIDATES else t
TitleFallback(s) ==
  LET t == title(s) IN IF t \in CandidateSet THEN t ELSE t

\* def _normalize(lbl)
normalize(raw) ==
  LET s == lower(strip(raw))
  IN  IF s \in DOMAIN ALIASES THEN ALIASES[s]
      ELSE IF RulesBeforeRice(s) # "" THEN RulesBeforeRice(s)
      ELSE IF RiceRules(s) # "" THEN RiceRules(s)
      ELSE IF RulesAfterRice(s) # "" THEN RulesAfterRice(s)
      ELSE TitleFallback(s)

(***************************************************************************)
(* SpecNormalize: _normalize applied to one label drawn from LabelInputs.  *)
(***************************************************************************)
Words ==
  {"chicken", "rice", "curry", "wrap", "Wrap", "oat", "grilled", "cheese", "beef",
   "licorice", "dog"}

RECURSIVE Join(_)
\* the words of ws separated by single spaces
Join(ws) ==
  IF Len(ws) = 0 THEN ""
  ELSE IF Len(ws) = 1 THEN ws[1]
  ELSE ws[1] \o " " \o Join(Tail(ws))

WordSeqs == UNION {[1..n -> Words] : n \in 0..MaxWords}

Phrases == {Join(ws) : ws \in WordSeqs}

\* every phrase as it is and shouted with blanks around it, and every alias key
LabelInputs ==
  Phrases \cup {"  " \o upper(p) \o " " : p \in Phrases} \cup DOMAIN ALIASES

NotCalled == "<not called>"

InitNormalize ==
  /\ lbl \in LabelInputs
  /\ ret = NotCalled

CallNormalize ==
  /\ ret = NotCalled
  /\ ret' = normalize(lbl)
  /\ UNCHANGED lbl

(***************************************************************************)
(* Environment configuration of ai_model.py (lines 9-19).                  *)
(***************************************************************************)
HF_MODEL_GENERAL == "Jacques7103/Food-Recognition"

HF_MODEL_INDIAN == "Utsav201247/food_recognition"

HF_MODEL_ZS == "openai/clip-vit-base-patch32"

TOP_K == 5

ZS_TOP_K == 5

\* 0.55, in units of 1e-4
CONF_THRES == 5500

MAX_ITEMS == 4

\* W_GENERAL 0.6, W_INDIAN 0.6, W_CLIP 1.1, in units of 1e-1
DefaultWeights == [W_GENERAL |-> 6, W_INDIAN |-> 6, W_CLIP |-> 11]

\* weights set through the environment: 0.5, 0.8, 1.0
CustomWeights == [W_GENERAL |-> 5, W_INDIAN |-> 8, W_CLIP |-> 10]

Configs == {DefaultWeights, CustomWeights}

(***************************************************************************)
(* The sub-models: opaque pipelines.  A call raises or returns a list of   *)
(* at most top_k predictions {label, score}; the score is in units of 1e-4.*)
(***************************************************************************)
Pred(label, score) == [label |-> label, score |-> score]

\* what each pipeline can predict for the image
Predictions(model_id) ==
  IF model_id = HF_MODEL_GENERAL
    THEN {Pred("Oatmeal", 9000), Pred(" OATS", 9166), Pred("hot dog", 5000)}
  ELSE IF model_id = HF_MODEL_INDIAN
    THEN {Pred("porridge", 5000), Pred("butter chicken", 10000),
          Pred("chicken_fried_rice", 9000)}
  \* the zero-shot pipeline labels with the candidate labels it was given
  ELSE {Pred("Biryani", 5000), Pred("Chicken Curry", 4000), Pred("Dosa", 10000)}

Min(a, b) == IF a <= b THEN a ELSE b

Max(a, b) == IF a >= b THEN a ELSE b

PredLists(model_id, top_k) ==
  UNION {[1..n -> Predictions(model_id)] : n \in 0..Min(top_k, MaxPreds)}

NotInvoked == [status |-> "not invoked", preds |-> <<>>]

Raised == [status |-> "raised", preds |-> <<>>]

Returned(preds) == [status |-> "returned", preds |-> preds]

\* the outcomes of one pipeline call
Outcomes(model_id, top_k) ==
  {Raised} \cup {Returned(ps) : ps \in PredLists(model_id, top_k)}

(***************************************************************************)
(* FoodEstimator.__init__                                                  *)
(***************************************************************************)
\* _try_add_cls: the pipeline is appended unless the id is empty or the load fails
try_add_cls(cls_pipes, model_id, loadOk) ==
  IF model_id = "" THEN cls_pipes
  ELSE IF loadOk THEN Append(cls_pipes, model_id)
  ELSE cls_pipes

\* _try_add_zs: self.zs is set unless the id is empty or the load fails
try_add_zs(zs, model_id, loadOk) ==
  IF model_id = "" THEN zs
  ELSE IF loadOk THEN TRUE
  ELSE zs

\* no instance (None)
NoEstimator == [built |-> FALSE, cls_pipes |-> <<>>, zs |-> FALSE]

\* __init__ given which loads succeed: the instance, or raised
FoodEstimatorInit(okGeneral, okIndian, okZs) ==
  LET pipes == try_add_cls(try_add_cls(<<>>, HF_MODEL_GENERAL, okGeneral),
                           HF_MODEL_INDIAN, okIndian)
      zs == try_add_zs(FALSE, HF_MODEL_ZS, okZs)
  IN  IF Len(pipes) = 0 /\ ~zs
        THEN [raised |-> TRUE, self |-> NoEstimator]
        ELSE [raised |-> FALSE,
              self |-> [built |-> TRUE, cls_pipes |-> pipes, zs |-> zs]]

(***************************************************************************)
(* FoodEstimator.estimate                                                  *)
(***************************************************************************)
\* line 191: [W_GENERAL, W_INDIAN] + [0.6] * max(0, len(self.cls_pipes) - 2)
pipe_weights(c, cls_pipes) ==
  <<c.W_GENERAL, c.W_INDIAN>> \o [i \in 1..Max(0, Len(cls_pipes) - 2) |-> 6]

\* the merge with the weighted scores added up
MergePredSum(sc, name, weighted) ==
  IF \E i \in 1..Len(sc) : sc[i].name = name
    THEN LET i == CHOOSE j \in 1..Len(sc) : sc[j].name = name
         IN  [sc EXCEPT ![i].score = sc[i].score + weighted]
    ELSE Append(sc, [name |-> name, score |-> weighted])

\* lines 199, 211: scores[norm] = max(scores.get(norm, 0.0), conf * w)
MergePred(sc, name, weighted) ==
  IF \E i \in 1..Len(sc) : sc[i].name = name
    THEN LET i == CHOOSE j \in 1..Len(sc) : sc[j].name = name
         IN  [sc EXCEPT ![i].score = Max(sc[i].score, weighted)]
    ELSE Append(sc, [name |-> name, score |-> Max(0, weighted)])

RECURSIVE MergeClassifier(_, _, _)
\* lines 195-199: the loop over one classifier's predictions
MergeClassifier(sc, preds, w) ==
  IF Len(preds) = 0 THEN sc
  ELSE MergeClassifier(
         MergePred(sc, normalize(Head(preds).label), Head(preds).score * w),
         Tail(preds), w)

RECURSIVE MergeZeroShot(_, _, _)
\* lines 208-211: the loop over the zero-shot predictions, labels taken as they are
MergeZeroShot(sc, preds, w) ==
  IF Len(preds) = 0 THEN sc
  ELSE MergeZeroShot(
         MergePred(sc, Head(preds).label, Head(preds).score * w),
         Tail(preds), w)

\* an except clause that starts the score map afresh
OnModelErrorReset(sc) == <<>>

\* lines 200-201, 212-213: the except clause logs and goes on with the scores it has
OnModelError(sc) == sc

RECURSIVE InsertDesc(_, _)
\* e put into a list sorted by descending score, after the entries that score
\* as much (the sort is stable)
InsertDesc(sorted, e) ==
  IF Len(sorted) = 0 THEN <<e>>
  ELSE IF Head(sorted).score >= e.score
    THEN <<Head(sorted)>> \o InsertDesc(Tail(sorted), e)
  ELSE <<e>> \o sorted

RECURSIVE SortDesc(_, _)
SortDesc(done, todo) ==
  IF Len(todo) = 0 THEN done ELSE SortDesc(InsertDesc(done, Head(todo)), Tail(todo))

\* the score map left in insertion order
RankedUnsorted(sc) == sc

\* line 215: sorted(scores.items(), key=lambda kv: kv[1], reverse=True)
Ranked(sc) == SortDesc(<<>>, sc)

\* round(x, 4) for x in units of 1e-5, the result in units of 1e-4; ties to even
Round4(x) ==
  LET q == x \div 10
      r == x % 10
  IN  IF r < 5 THEN q
      ELSE IF r > 5 THEN q + 1
      ELSE IF q % 2 = 0 THEN q ELSE q + 1

\* lines 218-222: one entry of items
Item(name, sc) ==
  [name |-> name,
   default_grams |-> IF name \in DOMAIN DEFAULT_GRAMS THEN DEFAULT_GRAMS[name] ELSE 100,
   confidence |-> Round4(sc)]

\* lines 216-225: the first MAX_ITEMS ranked entries, or the fallback item
Items(ranked) ==
  LET top == SubSeq(ranked, 1, Min(MAX_ITEMS, Len(ranked)))
      items == [i \in 1..Len(top) |-> Item(top[i].name, top[i].score)]
  IN  IF Len(items) = 0
        THEN <<[name |-> "Meal", default_grams |-> 150, confidence |-> 0]>>
        ELSE items

\* the headline that is always the first item's name
HeadlineFirstOnly(items) == items[1].name

\* lines 227-229: title
Headline(items) ==
  IF Len(items) > 0 /\ items[1].confidence < CONF_THRES /\ Len(items) >= 2
    THEN items[1].name \o " or " \o items[2].name
    ELSE items[1].name

NoResult == [raised |-> FALSE, dish_name |-> "", items |-> <<>>]

RaisedResult == [raised |-> TRUE, dish_name |-> "", items |-> <<>>]

\* lines 215-235 (preview_image_id, a fresh uuid, is left out)
Finish(sc) ==
  LET items == Items(Ranked(sc))
  IN  [raised |-> FALSE, dish_name |-> Headline(items), items |-> items]

(***************************************************************************)
(* Spec: one FoodEstimator, built once, serving estimate calls.  estimate  *)
(* is sequential code; its steps are the pipeline calls, in program order. *)
(***************************************************************************)
ModelIds == {HF_MODEL_GENERAL, HF_MODEL_INDIAN, HF_MODEL_ZS}

\* "none": neither image_path nor image_bytes; "corrupt": bytes PIL cannot open
Images == {"none", "corrupt", "valid"}

NoCalls == [m \in ModelIds |-> NotInvoked]

ServiceIdle ==
  /\ AI_PRELOAD = FALSE
  /\ started = FALSE
  /\ estimator = NoEstimator
  /\ constructions = 0
  /\ req = [r \in 1..MaxRequests |-> "idle"]

NormalizeIdle ==
  /\ lbl = ""
  /\ ret = NotCalled

EstimatorIdle ==
  /\ cfg = DefaultWeights
  /\ est = NoEstimator
  /\ image = "none"
  /\ pc = "new"
  /\ k = 0
  /\ resp = NoCalls
  /\ scores = <<>>
  /\ result = NoResult

Init ==
  /\ cfg \in Configs
  /\ est = NoEstimator
  /\ image = "none"
  /\ pc = "new"
  /\ k = 0
  /\ resp = NoCalls
  /\ scores = <<>>
  /\ result = NoResult
  /\ NormalizeIdle
  /\ ServiceIdle

\* FoodEstimator(): each of the three loads succeeds or fails
Construct ==
  /\ pc = "new"
  /\ \E okGeneral, okIndian, okZs \in BOOLEAN :
       LET r == FoodEstimatorInit(okGeneral, okIndian, okZs)
       IN  /\ est' = r.self
           /\ pc' = IF r.raised THEN "init failed" ELSE "ready"
  /\ UNCHANGED <<cfg, image, k, resp, scores, result>>

\* lines 181-187: the argument check, Image.open, and the empty score map
EstimateBegin ==
  /\ pc = "ready"
  /\ \E img \in Images :
       /\ image' = img
       /\ IF img = "valid"
            THEN /\ pc' = IF Len(est.cls_pipes) > 0 THEN "cls" ELSE "zs"
                 /\ result' = NoResult
            ELSE /\ pc' = "done"
                 /\ result' = RaisedResult
  /\ k' = 1
  /\ resp' = NoCalls
  /\ scores' = <<>>
  /\ UNCHANGED <<cfg, est>>

\* lines 192-201: one turn of the loop over zip(self.cls_pipes, pipe_weights)
InvokeClassifier ==
  /\ pc = "cls"
  /\ LET p == est.cls_pipes[k]
         w == pipe_weights(cfg, est.cls_pipes)[k]
         n == Min(Len(est.cls_pipes), Len(pipe_weights(cfg, est.cls_pipes)))
     IN  /\ \E o \in Outcomes(p, TOP_K) :
               /\ resp' = [resp EXCEPT ![p] = o]
               /\ scores' = IF o.status = "raised"
                              THEN OnModelError(scores)
                              ELSE MergeClassifier(scores, o.preds, w)
         /\ k' = k + 1
         /\ pc' = IF k + 1 <= n THEN "cls" ELSE "zs"
  /\ UNCHANGED <<cfg, est, image, result>>

\* lines 204-213: the zero-shot call, when a zero-shot pipeline was loaded
ZeroShot ==
  /\ pc = "zs"
  /\ IF est.zs
       THEN \E o \in Outcomes(HF_MODEL_ZS, ZS_TOP_K) :
              /\ resp' = [resp EXCEPT ![HF_MODEL_ZS] = o]
              /\ scores' = IF o.status = "raised"
                             THEN OnModelError(scores)
                             ELSE MergeZeroShot(scores, o.preds, cfg.W_CLIP)
       ELSE UNCHANGED <<resp, scores>>
  /\ pc' = "rank"
  /\ UNCHANGED <<cfg, est, image, k, result>>

\* lines 215-235: ranking, items, title, return
EstimateReturn ==
  /\ pc = "rank"
  /\ result' = Finish(scores)
  /\ pc' = "done"
  /\ UNCHANGED <<cfg, est, image, k, resp, scores>>

\* the caller has the result (or the exception); the instance serves the next call
NextCall ==
  /\ pc = "done"
  /\ pc' = "ready"
  /\ image' = "none"
  /\ k' = 0
  /\ resp' = NoCalls
  /\ scores' = <<>>
  /\ result' = NoResult
  /\ UNCHANGED <<cfg, est>>

Next ==
  \/ Construct /\ UNCHANGED <<normVars, svcVars>>
  \/ EstimateBegin /\ UNCHANGED <<normVars, svcVars>>
  \/ InvokeClassifier /\ UNCHANGED <<normVars, svcVars>>
  \/ ZeroShot /\ UNCHANGED <<normVars, svcVars>>
  \/ EstimateReturn /\ UNCHANGED <<normVars, svcVars>>
  \/ NextCall /\ UNCHANGED <<normVars, svcVars>>

Spec == Init /\ [][Next]_vars

(***************************************************************************)
(* SpecNormalize                                                           *)
(***************************************************************************)
NormalizeInit ==
  /\ InitNormalize
  /\ EstimatorIdle
  /\ ServiceIdle

NormalizeNext == CallNormalize /\ UNCHANGED <<estVars, svcVars>>

SpecNormalize == NormalizeInit /\ [][NormalizeNext]_vars

(***************************************************************************)
(* SpecService: estimator_service.py.  The handlers are coroutines on one  *)
(* asyncio event loop: a handler runs without interruption from one await  *)
(* to the next.  /estimate awaits once, at image.read(); _get_estimator()  *)
(* and est.estimate() are plain calls, so the code after the await is one  *)
(* step.  The startup event completes before any request is served.        *)
(***************************************************************************)
\* _get_estimator() given which loads succeed, should it construct:
\* the new _estimator, whether FoodEstimator() was called, whether it raised
get_estimator(cur, okGeneral, okIndian, okZs) ==
  IF ~cur.built
    THEN LET r == FoodEstimatorInit(okGeneral, okIndian, okZs)
         IN  [estimator |-> r.self, constructed |-> 1, raised |-> r.raised]
    ELSE [estimator |-> cur, constructed |-> 0, raised |-> FALSE]

ServiceInit ==
  /\ AI_PRELOAD \in BOOLEAN
  /\ started = FALSE
  /\ estimator = NoEstimator
  /\ constructions = 0
  /\ req = [r \in 1..MaxRequests |-> "idle"]
  /\ NormalizeIdle
  /\ EstimatorIdle

\* _maybe_preload: with AI_PRELOAD, _get_estimator() inside try/except
Startup ==
  /\ ~started
  /\ started' = TRUE
  /\ IF AI_PRELOAD
       THEN \E okGeneral, okIndian, okZs \in BOOLEAN :
              LET g == get_estimator(estimator, okGeneral, okIndian, okZs)
              IN  /\ estimator' = g.estimator
                  /\ constructions' = constructions + g.constructed
       ELSE UNCHANGED <<estimator, constructions>>
  /\ UNCHANGED <<AI_PRELOAD, req>>

\* estimate(), lines 106-120: the token and content-type checks, up to the await
Receive(r) ==
  /\ started
  /\ req[r] = "idle"
  /\ \E outcome \in {"500", "401", "415", "reading"} :
       req' = [req EXCEPT ![r] = outcome]
  /\ UNCHANGED <<AI_PRELOAD, started, estimator, constructions>>

\* estimate(), lines 120-153: image.read() is back; the size guard, then
\* _get_estimator() and est.estimate(image_bytes=raw); an exception of either
\* (a failed construction, empty or unreadable bytes) becomes a 500
Infer(r) ==
  /\ req[r] = "reading"
  /\ \/ /\ \E outcome \in {"400", "413"} : req' = [req EXCEPT ![r] = outcome]
        /\ UNCHANGED <<estimator, constructions>>
     \/ \E okGeneral, okIndian, okZs \in BOOLEAN, img \in Images :
          LET g == get_estimator(estimator, okGeneral, okIndian, okZs)
          IN  /\ estimator' = g.estimator
              /\ constructions' = constructions + g.constructed
              /\ req' = [req EXCEPT ![r] =
                           IF g.raised \/ img # "valid" THEN "500" ELSE "200"]
  /\ UNCHANGED <<AI_PRELOAD, started>>

ServiceNext ==
  \/ Startup /\ UNCHANGED <<normVars, estVars>>
  \/ \E r \in 1..MaxRequests : Receive(r) /\ UNCHANGED <<normVars, estVars>>
  \/ \E r \in 1..MaxRequests : Infer(r) /\ UNCHANGED <<normVars, estVars>>

SpecService == ServiceInit /\ [][ServiceNext]_vars

(***************************************************************************)
(* Vocabulary of the properties.                                           *)
(***************************************************************************)
\* estimate has returned a result to its caller
HasReturned == pc = "done" /\ ~result.raised

\* the sub-models the instance holds
LoadedModels ==
  {est.cls_pipes[i] : i \in 1..Len(est.cls_pipes)}
    \cup (IF est.zs THEN {HF_MODEL_ZS} ELSE {})

\* the sub-models whose call returned in the current estimate call
ReturnedModels == {m \in ModelIds : resp[m].status = "returned"}

\* the weight the aggregator pairs with a loaded sub-model
PairedWeight(m) ==
  IF m = HF_MODEL_ZS THEN cfg.W_CLIP
  ELSE LET i == CHOOSE j \in 1..Len(est.cls_pipes) : est.cls_pipes[j] = m
       IN  pipe_weights(cfg, est.cls_pipes)[i]

\* the weight the configuration names for a sub-model
OwnWeight(m) ==
  IF m = HF_MODEL_GENERAL THEN cfg.W_GENERAL
  ELSE IF m = HF_MODEL_INDIAN THEN cfg.W_INDIAN
  ELSE cfg.W_CLIP

\* _normalize of every label the classifiers can return, worked out once
ClassifierLabels ==
  {p.label : p \in Predictions(HF_MODEL_GENERAL) \cup Predictions(HF_MODEL_INDIAN)}

NormalizedLabel == [l \in ClassifierLabels |-> normalize(l)]

\* the name a sub-model's label is recorded under
NameOf(m, label) == IF m = HF_MODEL_ZS THEN label ELSE NormalizedLabel[label]

\* name and weighted score of every prediction returned by the models in ms,
\* under the weights weight[m]
Contributions(ms, weight) ==
  UNION {{[name |-> NameOf(m, resp[m].preds[i].label),
           val |-> resp[m].preds[i].score * weight[m]] :
             i \in 1..Len(resp[m].preds)} : m \in ms}

PairedWeights == [m \in LoadedModels |-> PairedWeight(m)]

OwnWeights == [m \in ModelIds |-> OwnWeight(m)]

MaxOf(S) == CHOOSE x \in S : \A y \in S : y <= x

\* the max-merge of a set of contributions, as a set of (name, score) entries
MaxMerge(C) ==
  {[name |-> n, score |-> MaxOf({c.val : c \in {d \in C : d.name = n}})] :
     n \in {c.name : c \in C}}

\* the score map as a set of (name, score) entries
ScoreMap(sc) == {sc[i] : i \in 1..Len(sc)}

\* a dict holds each key once
KeysDistinct(sc) == \A i, j \in 1..Len(sc) : sc[i].name = sc[j].name => i = j

\* the current call got past the argument check and Image.open
InCall == pc \in {"cls", "zs", "rank", "done"} /\ image = "valid"

\* the label has chicken and rice and no curry
ChickenRiceLabel(s) ==
  Contains("chicken", s) /\ Contains("rice", s) /\ ~Contains("curry", s)

\* one of the rules of lines 120-125, placed before the rice rules, matches
EarlierRuleMatches(s) ==
  \/ Contains("oat", s)
  \/ Contains("porridge", s)
  \/ Contains("avocado", s) /\ Contains("toast", s)
  \/ Contains("grilled", s) /\ Contains("cheese", s)
  \/ Contains("wrap", s)

\* the contributions merged so far, in program order
MergedSoFar ==
  LET Of(m) == IF m \in LoadedModels /\ resp[m].status = "returned"
                 THEN [i \in 1..Len(resp[m].preds) |->
                         [name |-> NameOf(m, resp[m].preds[i].label),
                          val |-> resp[m].preds[i].score * PairedWeight(m)]]
                 ELSE <<>>
  IN  Of(HF_MODEL_GENERAL) \o Of(HF_MODEL_INDIAN) \o Of(HF_MODEL_ZS)

RECURSIVE MergeBackwards(_, _)
\* the contributions cs merged into sc last to first
MergeBackwards(sc, cs) ==
  IF Len(cs) = 0 THEN sc
  ELSE MergeBackwards(MergePred(sc, cs[Len(cs)].name, cs[Len(cs)].val),
                      SubSeq(cs, 1, Len(cs) - 1))

(***************************************************************************)
(* C1.  FoodEstimator() is called at most once in the life of the process, *)
(* whatever the interleaving of the startup preload and the /estimate      *)
(* requests, also after a construction that raised.                        *)
(***************************************************************************)
C1_ConstructedAtMostOnce == constructions <= 1

(***************************************************************************)
(* C2.  When no model contributes a label (every call raises or returns an *)
(* empty list), estimate with a valid image does not raise and returns the *)
(* single item Meal / 100 grams / confidence 0, with dish_name "Meal".     *)
(***************************************************************************)
C2_FallbackItem ==
  (pc = "done" /\ image = "valid" /\ Contributions(ReturnedModels, PairedWeights) = {})
    => /\ ~result.raised
       /\ result.items = <<[name |-> "Meal", default_grams |-> 100, confidence |-> 0]>>
       /\ result.dish_name = "Meal"

(***************************************************************************)
(* C3.  Whichever sub-models raise in an estimate call with a valid image, *)
(* estimate returns, every loaded sub-model has been invoked, and the      *)
(* score map is the max-merge of the predictions of the sub-models that    *)
(* did not raise.                                                          *)
(***************************************************************************)
C3_FailureIsolation ==
  (pc = "done" /\ image = "valid")
    => /\ ~result.raised
       /\ \A m \in LoadedModels : resp[m].status # "not invoked"
       /\ KeysDistinct(scores)
       /\ ScoreMap(scores) = MaxMerge(Contributions(ReturnedModels, PairedWeights))

\* a call in which the regional classifier raised between two models that scored
C3_Witness ==
  /\ HasReturned
  /\ resp[HF_MODEL_GENERAL].status = "returned"
  /\ Len(resp[HF_MODEL_GENERAL].preds) > 0
  /\ resp[HF_MODEL_INDIAN].status = "raised"
  /\ resp[HF_MODEL_ZS].status = "returned"
  /\ Len(resp[HF_MODEL_ZS].preds) > 0
  /\ Len(scores) >= 2

(***************************************************************************)
(* C4.  dish_name is the first item's name, except exactly when the first  *)
(* item's confidence is below CONF_THRES and there is a second item: then  *)
(* it is "<first> or <second>".  (Biryani, 0.50), (Chicken Curry, 0.40)    *)
(* give "Biryani or Chicken Curry"; a sole (Oatmeal, 0.54) gives "Oatmeal".*)
(***************************************************************************)
C4_Headline ==
  HasReturned =>
    LET items == result.items
        ambiguous == items[1].confidence < CONF_THRES /\ Len(items) >= 2
    IN  /\ ambiguous => result.dish_name = items[1].name \o " or " \o items[2].name
        /\ ~ambiguous => result.dish_name = items[1].name
        /\ (/\ Len(items) >= 2
            /\ items[1].name = "Biryani" /\ items[1].confidence = 5000
            /\ items[2].name = "Chicken Curry" /\ items[2].confidence = 4000)
             => result.dish_name = "Biryani or Chicken Curry"
        /\ (Len(items) = 1 /\ items[1].name = "Oatmeal" /\ items[1].confidence = 5400)
             => result.dish_name = "Oatmeal"

\* the Biryani example: weights 0.5 / 0.8 / 1.0, the zero-shot model alone scoring
C4_Witness ==
  /\ HasReturned
  /\ Len(result.items) = 2
  /\ result.items[1] = [name |-> "Biryani", default_grams |-> 100, confidence |-> 5000]
  /\ result.items[2] = [name |-> "Chicken Curry", default_grams |-> 220, confidence |-> 4000]
  /\ result.dish_name = "Biryani or Chicken Curry"

(***************************************************************************)
(* C5.  Every item name in a result is a member of CANDIDATES or is the    *)
(* fallback "Meal", and every item whose name is not a key of              *)
(* DEFAULT_GRAMS has default_grams 100.                                    *)
(***************************************************************************)
C5_CanonicalNames ==
  HasReturned =>
    \A i \in 1..Len(result.items) :
      /\ result.items[i].name \in CandidateSet \cup {"Meal"}
      /\ result.items[i].name \notin DOMAIN DEFAULT_GRAMS
           => result.items[i].default_grams = 100

(***************************************************************************)
(* C6.  A returned result has between 1 and MAX_ITEMS items, however many  *)
(* names the score map holds; the items are the highest-scoring names of   *)
(* the score map, in non-increasing order of score.  (With an empty score  *)
(* map the one item is the fallback.)                                      *)
(***************************************************************************)
C6_TopItems ==
  HasReturned =>
    LET items == result.items
        ScoreOf(n) == (CHOOSE e \in ScoreMap(scores) : e.name = n).score
        chosen == {items[i].name : i \in 1..Len(items)}
    IN  /\ 1 <= Len(items) /\ Len(items) <= MAX_ITEMS
        /\ \A i \in 1..Len(items) - 1 : items[i].confidence >= items[i + 1].confidence
        /\ scores # <<>> =>
             /\ Len(items) = Min(MAX_ITEMS, Len(scores))
             /\ Cardinality(chosen) = Len(items)
             /\ \A i \in 1..Len(items) :
                  /\ \E e \in ScoreMap(scores) : e.name = items[i].name
                  /\ items[i].confidence = Round4(ScoreOf(items[i].name))
             /\ \A i \in 1..Len(items) - 1 :
                  ScoreOf(items[i].name) >= ScoreOf(items[i + 1].name)
             /\ \A e \in ScoreMap(scores) :
                  e.name \notin chosen
                    => \A i \in 1..Len(items) : ScoreOf(items[i].name) >= e.score

\* more names scored than fit: the list is cut at MAX_ITEMS
C6_Witness ==
  /\ HasReturned
  /\ Len(scores) > MAX_ITEMS
  /\ Len(result.items) = MAX_ITEMS
  /\ \E i \in 1..Len(scores) - 1 : scores[i].score < scores[i + 1].score

(***************************************************************************)
(* C7.  As claimed: every label that contains "chicken" and "rice" and not *)
(* "curry" normalizes to "Chicken & Rice", whatever else it contains.      *)
(***************************************************************************)
C7_AlwaysChickenAndRice ==
  (ret # NotCalled /\ ChickenRiceLabel(lower(strip(lbl))))
    => ret = "Chicken & Rice"

(***************************************************************************)
(* C7, amended.  Such a label never normalizes to "Chicken Breast" or      *)
(* "Rice (cooked)", and it normalizes to "Chicken & Rice" exactly when no  *)
(* rule placed before the rice rules matches it: when it contains neither  *)
(* "oat" nor "porridge" nor "wrap", not both "avocado" and "toast", and    *)
(* not both "grilled" and "cheese".  Containment is of the trimmed,        *)
(* lower-cased label.                                                      *)
(***************************************************************************)
C7_ChickenAndRiceUnlessEarlierRule ==
  (ret # NotCalled /\ ChickenRiceLabel(lower(strip(lbl))))
    => /\ ret \notin {"Chicken Breast", "Rice (cooked)"}
       /\ ret = "Chicken & Rice" <=> ~EarlierRuleMatches(lower(strip(lbl)))

\* a chicken-and-rice label with other words, none of them an alias key
C7_Witness ==
  /\ ret = "Chicken & Rice"
  /\ lower(strip(lbl)) \notin DOMAIN ALIASES
  /\ Contains("chicken", lbl) /\ Contains("licorice", lbl) /\ Contains("dog", lbl)

(***************************************************************************)
(* C8.  At every point of an estimate call the score of each name is the   *)
(* maximum, over the predictions merged so far that map to the name, of    *)
(* confidence times the model's weight; merging any of those predictions   *)
(* once more changes nothing; merging them in the opposite order gives the *)
(* same map.                                                               *)
(***************************************************************************)
C8_MaxMerge ==
  InCall =>
    LET cs == MergedSoFar
        fed == {cs[i] : i \in 1..Len(cs)}
    IN  /\ {scores[i].name : i \in 1..Len(scores)} = {c.name : c \in fed}
        /\ \A i \in 1..Len(scores) :
             scores[i].score = MaxOf({c.val : c \in {d \in fed : d.name = scores[i].name}})
        /\ \A c \in fed : MergePred(scores, c.name, c.val) = scores
        /\ ScoreMap(MergeBackwards(<<>>, cs)) = ScoreMap(scores)

\* one name fed by two models with different weighted scores, and twice by one
C8_Witness ==
  /\ HasReturned
  /\ resp[HF_MODEL_GENERAL].status = "returned"
  /\ resp[HF_MODEL_GENERAL].preds = <<Pred(" OATS", 9166), Pred(" OATS", 9166)>>
  /\ resp[HF_MODEL_INDIAN].status = "returned"
  /\ resp[HF_MODEL_INDIAN].preds = <<Pred("porridge", 5000), Pred("butter chicken", 10000)>>
  /\ \E i \in 1..Len(scores) : scores[i].name = "Oatmeal" /\ scores[i].score = 9166 * 6

(***************************************************************************)
(* C9.  With the default weights (0.6, 0.6, 1.1) and raw confidences in    *)
(* [0,1], the confidence of every returned item lies in [0,1].             *)
(***************************************************************************)
C9_ConfidenceInUnitInterval ==
  (HasReturned /\ cfg = DefaultWeights)
    => \A i \in 1..Len(result.items) :
         0 <= result.items[i].confidence /\ result.items[i].confidence <= 10000

(***************************************************************************)
(* C10.  Whatever loads succeed, the general model's predictions are       *)
(* weighted by W_GENERAL and the regional model's by W_INDIAN: the score   *)
(* map is the max-merge of the predictions under each model's own weight.  *)
(***************************************************************************)
C10_OwnWeights ==
  (pc = "done" /\ image = "valid")
    => ScoreMap(scores) = MaxMerge(Contributions(ReturnedModels, OwnWeights))

====
